---- MODULE Spec2Model ----
(***************************************************************************)
(* Order execution engine of rust/src/order_execution/mod.rs:              *)
(* OrderExecutor (session token, contract cache, both behind a tokio       *)
(* RwLock) and AsyncOrderExecutor (place with retry_on_500, modify,        *)
(* cancel).  Strings are sequences of one-character strings, so that       *)
(* to_uppercase, format! and contains are computed, not assumed.           *)
(***************************************************************************)
EXTENDS Integers, Sequences, FiniteSets, TLC

\* ---------------------------------------------------------------- strings
S_BUY == <<"B", "U", "Y">>
S_SELL == <<"S", "E", "L", "L">>
HTTP_500 == <<"H", "T", "T", "P", " ", "5", "0", "0">>
SideErrorMsg == <<"S", "i", "d", "e", " ", "m", "u", "s", "t", " ", "b", "e", " ", "'", "B", "U", "Y", "'", " ", "o", "r", " ", "'", "S", "E", "L", "L", "'">>
AuthRequiredMsg == <<"A", "u", "t", "h", "e", "n", "t", "i", "c", "a", "t", "i", "o", "n", " ", "t", "o", "k", "e", "n", " ", "r", "e", "q", "u", "i", "r", "e", "d", ".", " ", "C", "a", "l", "l", " ", "s", "e", "t", "_", "t", "o", "k", "e", "n", "(", ")", " ", "f", "i", "r", "s", "t", ".">>
ContractMsgPrefix == <<"C", "o", "n", "t", "r", "a", "c", "t", " ", "I", "D", " ", "n", "o", "t", " ", "f", "o", "u", "n", "d", " ", "f", "o", "r", " ", "s", "y", "m", "b", "o", "l", ":", " ">>
ContractMsgSuffix == <<".", " ", "C", "a", "l", "l", " ", "s", "e", "t", "_", "c", "o", "n", "t", "r", "a", "c", "t", "_", "i", "d", "(", ")", " ", "f", "i", "r", "s", "t", ".">>
HttpFailedPrefix == <<"H", "T", "T", "P", " ", "r", "e", "q", "u", "e", "s", "t", " ", "f", "a", "i", "l", "e", "d", ":", " ">>
ParseFailedPrefix == <<"F", "a", "i", "l", "e", "d", " ", "t", "o", " ", "p", "a", "r", "s", "e", " ", "r", "e", "s", "p", "o", "n", "s", "e", ":", " ">>
UnknownErrorMsg == <<"U", "n", "k", "n", "o", "w", "n", " ", "e", "r", "r", "o", "r">>
UnknownCode == <<"U", "n", "k", "n", "o", "w", "n">>
NoErrorMessage == <<"N", "o", " ", "e", "r", "r", "o", "r", " ", "m", "e", "s", "s", "a", "g", "e">>
OrderFailedPrefix == <<"O", "r", "d", "e", "r", " ", "f", "a", "i", "l", "e", "d", ":", " ">>
CodePrefix == <<" ", "(", "C", "o", "d", "e", ":", " ">>
CodeSuffix == <<")">>
NoOrderIdMsg == <<"O", "r", "d", "e", "r", " ", "r", "e", "j", "e", "c", "t", "e", "d", ":", " ", "N", "o", " ", "o", "r", "d", "e", "r", " ", "I", "D", " ", "r", "e", "t", "u", "r", "n", "e", "d">>
PlacedMsg == <<"O", "r", "d", "e", "r", " ", "p", "l", "a", "c", "e", "d", " ", "s", "u", "c", "c", "e", "s", "s", "f", "u", "l", "l", "y">>
ModifyFailedPrefix == <<"F", "a", "i", "l", "e", "d", " ", "t", "o", " ", "m", "o", "d", "i", "f", "y", " ", "o", "r", "d", "e", "r", ":", " ">>
CancelFailedPrefix == <<"F", "a", "i", "l", "e", "d", " ", "t", "o", " ", "c", "a", "n", "c", "e", "l", " ", "o", "r", "d", "e", "r", ":", " ">>
ReadFailedPrefix == <<"F", "a", "i", "l", "e", "d", " ", "t", "o", " ", "r", "e", "a", "d", " ", "r", "e", "s", "p", "o", "n", "s", "e", ":", " ">>
ModifiedMsg == <<"O", "r", "d", "e", "r", " ", "m", "o", "d", "i", "f", "i", "e", "d", " ", "s", "u", "c", "c", "e", "s", "s", "f", "u", "l", "l", "y">>
CancelledMsg == <<"O", "r", "d", "e", "r", " ", "c", "a", "n", "c", "e", "l", "l", "e", "d", " ", "s", "u", "c", "c", "e", "s", "s", "f", "u", "l", "l", "y">>
HttpPrefix == <<"H", "T", "T", "P", " ">>
ColonSpace == <<":", " ">>
Status200Text == <<"2", "0", "0", " ", "O", "K">>
Status404Text == <<"4", "0", "4", " ", "N", "o", "t", " ", "F", "o", "u", "n", "d">>
Status500Text == <<"5", "0", "0", " ", "I", "n", "t", "e", "r", "n", "a", "l", " ", "S", "e", "r", "v", "e", "r", " ", "E", "r", "r", "o", "r">>
Str_mnq == <<"m", "n", "q">>
Str_MNQ == <<"M", "N", "Q">>
Str_ES == <<"E", "S">>
Str_buy == <<"b", "u", "y">>
Str_Sell == <<"S", "e", "l", "l">>
Str_HOLD == <<"H", "O", "L", "D">>
Str_A1 == <<"A", "1">>
Str_B2 == <<"B", "2">>
Str_D3 == <<"D", "3">>
Str_timeout == <<"o", "p", "e", "r", "a", "t", "i", "o", "n", " ", "t", "i", "m", "e", "d", " ", "o", "u", "t">>
Str_upstream500 == <<"H", "T", "T", "P", " ", "5", "0", "0", ":", " ", "I", "n", "t", "e", "r", "n", "a", "l", " ", "S", "e", "r", "v", "e", "r", " ", "E", "r", "r", "o", "r">>
Str_margin == <<"I", "n", "s", "u", "f", "f", "i", "c", "i", "e", "n", "t", " ", "m", "a", "r", "g", "i", "n">>
Str_gateway == <<"u", "p", "s", "t", "r", "e", "a", "m", " ", "s", "a", "i", "d", " ", "H", "T", "T", "P", " ", "5", "0", "0", "0">>
Str_lower500 == <<"h", "t", "t", "p", " ", "5", "0", "0">>
Str_E42 == <<"E", "4", "2">>
Str_html == <<"<", "h", "t", "m", "l", ">", "B", "a", "d", " ", "G", "a", "t", "e", "w", "a", "y", "<", "/", "h", "t", "m", "l", ">">>
Str_ord7 == <<"O", "R", "D", "7">>
Status299Text == <<"2", "9", "9", " ", "<", "u", "n", "k", "n", "o", "w", "n", " ", "s", "t", "a", "t", "u", "s", " ", "c", "o", "d", "e", ">">>
Status300Text == <<"3", "0", "0", " ", "M", "u", "l", "t", "i", "p", "l", "e", " ", "C", "h", "o", "i", "c", "e", "s">>
Status204Text == <<"2", "0", "4", " ", "N", "o", " ", "C", "o", "n", "t", "e", "n", "t">>
Str_limit == <<"l", "i", "m", "i", "t">>
Str_LIMIT == <<"L", "I", "M", "I", "T">>
Str_market == <<"m", "a", "r", "k", "e", "t">>
Str_jsonErrBody == <<"{", "\"", "e", "r", "r", "o", "r", "\"", ":", "\"", "d", "e", "n", "i", "e", "d", "\"", "}">>
Str_denied == <<"d", "e", "n", "i", "e", "d">>
Str_tag == <<"t", "a", "g", "X">>
Str_eof == <<"E", "O", "F", " ", "w", "h", "i", "l", "e", " ", "p", "a", "r", "s", "i", "n", "g">>

LowerAlphabet == <<"a", "b", "c", "d", "e", "f", "g", "h", "i", "j", "k", "l", "m", "n", "o", "p", "q", "r", "s", "t", "u", "v", "w", "x", "y", "z">>
UpperAlphabet == <<"A", "B", "C", "D", "E", "F", "G", "H", "I", "J", "K", "L", "M", "N", "O", "P", "Q", "R", "S", "T", "U", "V", "W", "X", "Y", "Z">>

\* char::to_uppercase on the ASCII range: a..z map to A..Z, all else is kept.
UpperChar(c) ==
  IF \E i \in 1..Len(LowerAlphabet) : LowerAlphabet[i] = c
  THEN UpperAlphabet[CHOOSE i \in 1..Len(LowerAlphabet) : LowerAlphabet[i] = c]
  ELSE c

\* str::to_uppercase
to_uppercase(s) == [i \in 1..Len(s) |-> UpperChar(s[i])]

\* str::contains(pat): pat occurs as a contiguous substring of s.
contains(s, pat) ==
  \E i \in 0..(Len(s) - Len(pat)) : SubSeq(s, i + 1, i + Len(pat)) = pat

\* ---------------------------------------------------------------- Option
None == <<>>
Some(x) == <<x>>
unwrap_or(o, d) == IF o = None THEN d ELSE o[1]
or_else(o, alt) == IF o # None THEN o ELSE alt

\* ------------------------------------------------------ serde_json::Value
JNull == [t |-> "null", v |-> <<>>]
JBool(b) == [t |-> "bool", v |-> b]
JNum(n) == [t |-> "num", v |-> n]
JStr(s) == [t |-> "str", v |-> s]
JArr == [t |-> "arr", v |-> <<>>]
JObj(f) == [t |-> "obj", v |-> f]

\* Value::get(key): a member of an object; None on anything else.
get(j, k) == IF j.t = "obj" /\ k \in DOMAIN j.v THEN Some(j.v[k]) ELSE None
is_null(j) == j.t = "null"
as_str(j) == IF j.t = "str" THEN Some(j.v) ELSE None
as_bool(j) == IF j.t = "bool" THEN Some(j.v) ELSE None
\* Option::and_then(|v| v.as_str()) and Option::and_then(|v| v.as_bool())
and_then_as_str(o) == IF o = None THEN None ELSE as_str(o[1])
and_then_as_bool(o) == IF o = None THEN None ELSE as_bool(o[1])

\* ---------------------------------------------------------- OrderResponse
OrderResponse(success, order_id, message, error, raw_response) ==
  [success |-> success, order_id |-> order_id, message |-> message,
   error |-> error, raw_response |-> raw_response]

\* PyResult<OrderResponse>
Ok(resp) == [ok |-> TRUE, resp |-> resp]
Err(type, msg) == [ok |-> FALSE, type |-> type, msg |-> msg]

\* --------------------------------------------- place: validation, payload
\* A side check that accepts anything, as OrderSide::from (line 87) does.
side_defaults_to_buy(side) == TRUE

\* Lines 335-344: the side is valid when it upper-cases to BUY or SELL.
side_is_valid(side) == ~(to_uppercase(side) # S_BUY /\ to_uppercase(side) # S_SELL)

\* The side-validation failure with its text in the message field.
SideFailure_as_message == OrderResponse(FALSE, None, Some(SideErrorMsg), None, None)

SideFailure == OrderResponse(FALSE, None, None, Some(SideErrorMsg), None)

AuthError == Err("PyValueError", AuthRequiredMsg)

ContractError(symbol) ==
  Err("PyValueError", ContractMsgPrefix \o symbol \o ContractMsgSuffix)

\* HashMap::get(&symbol.to_uppercase()).copied()
cache_get(cache, symbol) ==
  IF to_uppercase(symbol) \in DOMAIN cache THEN Some(cache[to_uppercase(symbol)]) ELSE None

\* The map replaced by one holding the new entry alone.
cache_insert_fresh(cache, symbol, contract_id) ==
  [k \in {to_uppercase(symbol)} |-> contract_id]

\* The insert under the symbol as it was written.
cache_insert_verbatim(cache, symbol, contract_id) ==
  [k \in DOMAIN cache \cup {symbol} |-> IF k = symbol THEN contract_id ELSE cache[k]]

\* HashMap::insert(symbol.to_uppercase(), contract_id)
cache_insert(cache, symbol, contract_id) ==
  [k \in DOMAIN cache \cup {to_uppercase(symbol)} |->
     IF k = to_uppercase(symbol) THEN contract_id ELSE cache[k]]

LowerChar(c) ==
  IF \E i \in 1..Len(UpperAlphabet) : UpperAlphabet[i] = c
  THEN LowerAlphabet[CHOOSE i \in 1..Len(UpperAlphabet) : UpperAlphabet[i] = c]
  ELSE c

to_lowercase(s) == [i \in 1..Len(s) |-> LowerChar(s[i])]

side_value(side) == IF to_uppercase(side) = S_BUY THEN 0 ELSE 1

order_type_value(order_type) == IF to_lowercase(order_type) = Str_limit THEN 1 ELSE 2

\* An object whose members are the fields of r that are Some.
MkObj(r) == JObj([k \in {f \in DOMAIN r : r[f] # None} |-> r[k][1]])

stop_loss_bracket(ticks, quantity) ==
  JObj([ticks |-> JNum(ticks), type |-> JNum(4), size |-> JNum(quantity), reduceOnly |-> JBool(TRUE)])

\* A take-profit bracket sent with the stop type.
take_profit_bracket_stop_type(ticks, quantity) ==
  JObj([ticks |-> JNum(ticks), type |-> JNum(4), size |-> JNum(quantity), reduceOnly |-> JBool(TRUE)])

take_profit_bracket(ticks, quantity) ==
  JObj([ticks |-> JNum(ticks), type |-> JNum(1), size |-> JNum(quantity), reduceOnly |-> JBool(TRUE)])

\* Lines 360-409: the order payload.
build_order_data(a, contract_id) ==
  MkObj([accountId |-> Some(JNum(a.account_id)),
         contractId |-> Some(JNum(contract_id)),
         type |-> Some(JNum(order_type_value(a.order_type))),
         side |-> Some(JNum(side_value(a.side))),
         size |-> Some(JNum(a.quantity)),
         limitPrice |-> IF a.limit_price # None THEN Some(JNum(a.limit_price[1])) ELSE None,
         customTag |-> IF a.custom_tag # None THEN Some(JStr(a.custom_tag[1])) ELSE None,
         stopLossBracket |->
           IF (a.stop_loss_ticks # None \/ a.take_profit_ticks # None) /\ a.stop_loss_ticks # None
           THEN Some(stop_loss_bracket(a.stop_loss_ticks[1], a.quantity)) ELSE None,
         takeProfitBracket |->
           IF (a.stop_loss_ticks # None \/ a.take_profit_ticks # None) /\ a.take_profit_ticks # None
           THEN Some(take_profit_bracket(a.take_profit_ticks[1], a.quantity)) ELSE None])

\* ------------------------------------------------- place: the interpreter
\* Lines 470-474: the first PRESENT member of orderId, id, data.orderId, and
\* then its string value, if it is a string.
extract_order_id(response_json) ==
  and_then_as_str(
    or_else(or_else(get(response_json, "orderId"), get(response_json, "id")),
            IF get(response_json, "data") = None THEN None
            ELSE get(get(response_json, "data")[1], "orderId")))

\* Lines 452-458
failure_message(response_json) ==
  LET error_code == unwrap_or(and_then_as_str(get(response_json, "errorCode")), UnknownCode)
      error_message ==
        unwrap_or(and_then_as_str(or_else(get(response_json, "errorMessage"),
                                          get(response_json, "message"))),
                  NoErrorMessage)
  IN  OrderFailedPrefix \o error_message \o CodePrefix \o error_code \o CodeSuffix

\* Lines 447-449
success_flag(response_json) ==
  unwrap_or(and_then_as_bool(get(response_json, "success")), FALSE)

\* The null test of line 434 left out: a null error member is an error.
reported_error_null_counts(response_json) ==
  LET error == get(response_json, "error")
  IN  IF error # None
      THEN Some(unwrap_or(as_str(error[1]), UnknownErrorMsg))
      ELSE None

\* Lines 433-435: the error text of a payload whose error member is non-null.
reported_error(response_json) ==
  LET error == get(response_json, "error")
  IN  IF error # None /\ ~is_null(error[1])
      THEN Some(unwrap_or(as_str(error[1]), UnknownErrorMsg))
      ELSE None

\* Lines 432-492
interpret_place_response(response_json) ==
  IF reported_error(response_json) # None
  THEN OrderResponse(FALSE, None, None, reported_error(response_json), Some(response_json))
  ELSE IF ~success_flag(response_json)
  THEN OrderResponse(FALSE, None, None, Some(failure_message(response_json)), Some(response_json))
  ELSE IF extract_order_id(response_json) = None
  THEN OrderResponse(FALSE, None, None, Some(NoOrderIdMsg), Some(response_json))
  ELSE OrderResponse(TRUE, extract_order_id(response_json), Some(PlacedMsg), None,
                     Some(response_json))

\* ------------------------------------------------------------- transport
\* What one HTTP exchange gives: the send fails (kind send_error:
\* connection error or the 30 s timeout), or a status arrives and the body
\* cannot be read (body_error), or status and body arrive (http).  parsed is
\* serde_json's reading of the body text, None when the text is not JSON.
\* The place path never reads the text (response.json() goes straight to the
\* value), so the place bodies below leave it empty.
Response(kind, status, text, parsed, err) ==
  [kind |-> kind, status |-> status, text |-> text, parsed |-> parsed, err |-> err]

\* The status checked before the body is read, as modify and cancel do.
place_outcome_status_checked(r) ==
  IF r.kind = "send_error" THEN Err("PyRuntimeError", HttpFailedPrefix \o r.err)
  ELSE IF r.kind = "body_error" \/ r.parsed = None
  THEN Err("PyRuntimeError", ParseFailedPrefix \o r.err)
  ELSE IF r.status >= 200 /\ r.status < 300 THEN Ok(interpret_place_response(r.parsed[1]))
  ELSE Ok(OrderResponse(FALSE, None, None, Some(HTTP_500 \o ColonSpace \o r.text), None))

\* Lines 413-430 and 432-492: the outcome of one place attempt that was sent.
place_outcome(r) ==
  IF r.kind = "send_error" THEN Err("PyRuntimeError", HttpFailedPrefix \o r.err)
  ELSE IF r.kind = "body_error" \/ r.parsed = None
  THEN Err("PyRuntimeError", ParseFailedPrefix \o r.err)
  ELSE Ok(interpret_place_response(r.parsed[1]))

\* Success taken as status 200 alone.
is_success_only_200(status) == status = 200

\* StatusCode::is_success
is_success(status) == 200 <= status /\ status < 300

\* Display of StatusCode: the code and its canonical reason.
status_display(status) ==
  CASE status = 200 -> Status200Text
    [] status = 204 -> Status204Text
    [] status = 299 -> Status299Text
    [] status = 300 -> Status300Text
    [] status = 404 -> Status404Text
    [] status = 500 -> Status500Text

\* Lines 521-558 and 578-615: the outcome of a modify or cancel that was sent.
status_outcome(r, order_id, failed_prefix, done_msg) ==
  IF r.kind = "send_error" THEN Err("PyRuntimeError", failed_prefix \o r.err)
  ELSE IF r.kind = "body_error" THEN Err("PyRuntimeError", ReadFailedPrefix \o r.err)
  ELSE IF is_success(r.status)
  THEN Ok(OrderResponse(TRUE, Some(order_id), Some(done_msg), None,
                        Some(unwrap_or(r.parsed, JObj([message |-> JStr(r.text)])))))
  ELSE Ok(OrderResponse(FALSE, Some(order_id), None,
                        Some(HttpPrefix \o status_display(r.status) \o ColonSpace \o r.text),
                        None))

modify_outcome(r, order_id) == status_outcome(r, order_id, ModifyFailedPrefix, ModifiedMsg)

cancel_outcome(r, order_id) == status_outcome(r, order_id, CancelFailedPrefix, CancelledMsg)

\* ------------------------------------------------------------ retry_on_500
max_retries == 3

base_delay_ms == 750

RECURSIVE pow2(_)
pow2(n) == IF n = 0 THEN 1 ELSE 2 * pow2(n - 1)

\* The exponent not shifted by one: 1500, 3000, 6000.
delay_ms_unshifted(retries) == base_delay_ms * pow2(retries)

\* Line 284
delay_ms(retries) == base_delay_ms * pow2(retries - 1)

\* The retry count compared with <=: a fourth retry.
should_retry_inclusive(response, retries) ==
  /\ response.error # None
  /\ contains(response.error[1], HTTP_500)
  /\ retries <= max_retries

\* Any soft failure retried, whatever its error text.
should_retry_any_error(response, retries) ==
  /\ response.error # None
  /\ retries < max_retries

\* Lines 281-282: the test made on an Ok(response).
should_retry(response, retries) ==
  /\ response.error # None
  /\ contains(response.error[1], HTTP_500)
  /\ retries < max_retries


\* ------------------------------------------------------------------ state
\* Bound: set_token tasks spawned and not yet run.
MaxSpawned == 2

VARIABLES
  session_token,   \* Option<String> behind the token RwLock
  contract_cache,  \* HashMap<String, i64> behind the cache RwLock
  token_readers,   \* who holds read access to session_token
  token_writer,    \* Some(t): a set_token task holds write access, about to store t
  cache_readers,   \* who holds read access to contract_cache
  cache_writer,    \* Some("api"): set_contract_id holds write access
  spawned,         \* tokens of the set_token tasks spawned and not yet run, in call order
  api,             \* the caller's thread: the synchronous accessor it is in
  call,            \* the order future in flight (place, modify or cancel)
  history          \* history variable: the set_token calls that have returned
                   \* (last: the token of the latest one, passed: all their tokens)
                   \* and the set_contract_id calls completed (sets: the latest
                   \* call of each symbol as it was written, oldest first)

vars == <<session_token, contract_cache, token_readers, token_writer, cache_readers,
          cache_writer, spawned, api, call, history>>

NoHistory == [last |-> None, passed |-> {}, sets |-> <<>>]

\* The completed set_contract_id calls after one more: an earlier call with
\* the very same symbol text can no longer be the most recent for any symbol.
recorded_set(sets, symbol, contract_id) ==
  LET other(e) == e.symbol # symbol
  IN  Append(SelectSeq(sets, other), [symbol |-> symbol, contract_id |-> contract_id])

session == <<session_token, contract_cache, token_readers, token_writer, cache_readers,
             cache_writer, spawned>>

IdleApi == [op |-> "idle", pc |-> "idle", arg |-> <<>>, ret |-> None]

IdleCall ==
  [op |-> "none", pc |-> "idle", args |-> <<>>, retries |-> 0, token |-> None,
   sent |-> None, received |-> None, last |-> None, result |-> None, log |-> <<>>,
   start |-> None]

\* History field of a place call: the credential and the contract id of the
\* call's symbol that are stored when an attempt starts (operation() is
\* invoked, line 279), kept until the attempt ends.
stored_at_start(token, cache, a) ==
  Some([token |-> token, contract_id |-> cache_get(cache, a.symbol)])

\* The log of a call: attempt (operation() invoked), net (a request handed to
\* the transport), ret500 / ret (the attempt returned Ok with / without an
\* error text containing HTTP 500, or Err), wait (a backoff sleep of ms).
Event(ev, ms) == [ev |-> ev, ms |-> ms]

returned_500(outcome) ==
  outcome.ok /\ outcome.resp.error # None /\ contains(outcome.resp.error[1], HTTP_500)

ret_event(outcome) == Event(IF returned_500(outcome) THEN "ret500" ELSE "ret", 0)

\* Lines 111-128: OrderExecutor::new
Init ==
  /\ session_token = None
  /\ contract_cache = <<>>
  /\ token_readers = {}
  /\ token_writer = None
  /\ cache_readers = {}
  /\ cache_writer = None
  /\ spawned = <<>>
  /\ api = IdleApi
  /\ call = IdleCall
  /\ history = NoHistory

\* --------------------------------------------------------- session store
\* Lines 131-136: set_token spawns a detached task and returns.
set_token(tokens) ==
  /\ api.op = "idle"
  /\ Len(spawned) < MaxSpawned
  /\ \E t \in tokens :
       /\ spawned' = Append(spawned, t)
       /\ history' = [history EXCEPT !.last = Some(t), !.passed = history.passed \cup {t}]
  /\ UNCHANGED <<session_token, contract_cache, token_readers, token_writer, cache_readers,
                 cache_writer, api, call>>

\* Line 133: tokio::spawn called on a thread that is in no Tokio runtime
\* context panics; the caller gets the panic and nothing is spawned.
set_token_outside_runtime(tokens) ==
  /\ api.op = "idle"
  /\ \E t \in tokens :
       api' = [op |-> "set_token", pc |-> "ret", arg |-> [token |-> t], ret |-> Some("panic")]
  /\ UNCHANGED <<history, session, call>>

\* Line 134, token_arc.write().await: some spawned task is granted write access.
set_token_task_write_lock ==
  /\ token_readers = {}
  /\ token_writer = None
  /\ \E i \in 1..Len(spawned) :
       /\ token_writer' = Some(spawned[i])
       /\ spawned' = SubSeq(spawned, 1, i - 1) \o SubSeq(spawned, i + 1, Len(spawned))
  /\ UNCHANGED <<history, session_token, contract_cache, token_readers, cache_readers, cache_writer,
                 api, call>>

\* Line 134: the store, and the guard dropped.
set_token_task_store ==
  /\ token_writer # None
  /\ session_token' = Some(token_writer[1])
  /\ token_writer' = None
  /\ UNCHANGED <<history, contract_cache, token_readers, cache_readers, cache_writer, spawned, api,
                 call>>

\* A read of the token that does not wait for the writer.
get_token_read_unguarded ==
  /\ api.op = "idle"
  /\ token_readers' = token_readers \cup {"api"}
  /\ api' = [op |-> "get_token", pc |-> "locked", arg |-> <<>>, ret |-> None]
  /\ UNCHANGED <<history, session_token, contract_cache, token_writer, cache_readers, cache_writer,
                 spawned, call>>

\* Lines 139-147: get_token, up to the read access granted.
get_token_read_lock ==
  /\ api.op = "idle"
  /\ token_writer = None
  /\ token_readers' = token_readers \cup {"api"}
  /\ api' = [op |-> "get_token", pc |-> "locked", arg |-> <<>>, ret |-> None]
  /\ UNCHANGED <<history, session_token, contract_cache, token_writer, cache_readers, cache_writer,
                 spawned, call>>

\* Line 147: the clone, and the guard dropped.
get_token_read ==
  /\ api.op = "get_token" /\ api.pc = "locked"
  /\ token_readers' = token_readers \ {"api"}
  /\ api' = [api EXCEPT !.pc = "ret", !.ret = session_token]
  /\ UNCHANGED <<history, session_token, contract_cache, token_writer, cache_readers, cache_writer,
                 spawned, call>>

\* Lines 152-160: set_contract_id, up to the write access granted.
set_contract_id_write_lock(symbols, ids) ==
  /\ api.op = "idle"
  /\ cache_readers = {}
  /\ cache_writer = None
  /\ cache_writer' = Some("api")
  /\ \E s \in symbols, id \in ids :
       api' = [op |-> "set_contract_id", pc |-> "locked",
               arg |-> [symbol |-> s, contract_id |-> id], ret |-> None]
  /\ UNCHANGED <<history, session_token, contract_cache, token_readers, token_writer, cache_readers,
                 spawned, call>>

\* Line 160: the insert, and the guard dropped.
set_contract_id_insert ==
  /\ api.op = "set_contract_id" /\ api.pc = "locked"
  /\ contract_cache' = cache_insert(contract_cache, api.arg.symbol, api.arg.contract_id)
  /\ cache_writer' = None
  /\ api' = [api EXCEPT !.pc = "ret"]
  /\ history' = [history EXCEPT
                   !.sets = recorded_set(history.sets, api.arg.symbol, api.arg.contract_id)]
  /\ UNCHANGED <<session_token, token_readers, token_writer, cache_readers, spawned, call>>

\* Lines 166-174: get_contract_id, up to the read access granted.
get_contract_id_read_lock(symbols) ==
  /\ api.op = "idle"
  /\ cache_writer = None
  /\ cache_readers' = cache_readers \cup {"api"}
  /\ \E s \in symbols :
       api' = [op |-> "get_contract_id", pc |-> "locked", arg |-> [symbol |-> s], ret |-> None]
  /\ UNCHANGED <<history, session_token, contract_cache, token_readers, token_writer, cache_writer,
                 spawned, call>>

\* Line 174: the lookup, and the guard dropped.
get_contract_id_read ==
  /\ api.op = "get_contract_id" /\ api.pc = "locked"
  /\ cache_readers' = cache_readers \ {"api"}
  /\ api' = [api EXCEPT !.pc = "ret", !.ret = cache_get(contract_cache, api.arg.symbol)]
  /\ UNCHANGED <<history, session_token, contract_cache, token_readers, token_writer, cache_writer,
                 spawned, call>>

\* Lines 148, 161, 175: block_on returns, the accessor returns to its caller.
accessor_returns ==
  /\ api.pc = "ret"
  /\ api' = IdleApi
  /\ UNCHANGED <<history, session, call>>

\* ------------------------------------------------------------ order calls
\* Lines 276-294: retry_on_500 on the outcome of one attempt of a place call:
\* sleep and go round again, or return the outcome.
retry_on_500(c, outcome) ==
  IF outcome.ok /\ should_retry(outcome.resp, c.retries)
  THEN [c EXCEPT !.pc = "sleep", !.retries = c.retries + 1, !.token = None,
                 !.last = Some(outcome),
                 !.log = c.log \o <<ret_event(outcome), Event("wait", delay_ms(c.retries + 1))>>]
  ELSE [c EXCEPT !.pc = "done", !.token = None, !.last = Some(outcome),
                 !.result = Some(outcome), !.log = c.log \o <<ret_event(outcome)>>]

\* Modify and cancel wrapped in the retry loop of place.
return_outcome_retried(c, outcome) == retry_on_500(c, outcome)

\* Lines 229 and 241: modify and cancel return the outcome of their one attempt.
return_outcome(c, outcome) ==
  [c EXCEPT !.pc = "done", !.token = None, !.last = Some(outcome),
            !.result = Some(outcome), !.log = c.log \o <<ret_event(outcome)>>]

attempt_ends(c, outcome) ==
  IF c.op = "place" THEN retry_on_500([c EXCEPT !.start = None], outcome)
  ELSE return_outcome(c, outcome)

Request(endpoint, bearer, body) == [endpoint |-> endpoint, bearer |-> bearer, body |-> body]

\* Lines 508-517 and 572-574: the body of a modify or cancel request.
order_request_body(c) ==
  IF c.op = "modify"
  THEN MkObj([orderId |-> Some(JStr(c.args.order_id)),
              price |-> IF c.args.price # None THEN Some(JNum(c.args.price[1])) ELSE None,
              quantity |-> IF c.args.quantity # None THEN Some(JNum(c.args.quantity[1])) ELSE None])
  ELSE JObj([orderId |-> JStr(c.args.order_id)])

\* Lines 180-216 and 297-321: place_market_order hands the future to the runtime.
place_market_order(place_args) ==
  /\ api.op = "idle"
  /\ call.pc = "idle"
  /\ \E a \in place_args :
       call' = [IdleCall EXCEPT !.op = "place", !.pc = "attempt", !.args = a,
                                !.start = stored_at_start(session_token, contract_cache, a)]
  /\ UNCHANGED <<history, session, api>>

\* Lines 219-234
modify_order(modify_args) ==
  /\ api.op = "idle"
  /\ call.pc = "idle"
  /\ \E a \in modify_args : call' = [IdleCall EXCEPT !.op = "modify", !.pc = "attempt", !.args = a]
  /\ UNCHANGED <<history, session, api>>

\* Lines 237-246
cancel_order(cancel_args) ==
  /\ api.op = "idle"
  /\ call.pc = "idle"
  /\ \E a \in cancel_args : call' = [IdleCall EXCEPT !.op = "cancel", !.pc = "attempt", !.args = a]
  /\ UNCHANGED <<history, session, api>>

\* Lines 336-344: an attempt of place whose side is neither BUY nor SELL.
attempt_side_rejected ==
  /\ call.pc = "attempt" /\ call.op = "place"
  /\ ~side_is_valid(call.args.side)
  /\ call' = attempt_ends([call EXCEPT !.log = call.log \o <<Event("attempt", 0)>>],
                          Ok(SideFailure))
  /\ UNCHANGED <<history, session, api>>

\* Lines 347, 502, 566, session_token.read().await: read access granted.
attempt_token_read_lock ==
  /\ call.pc = "attempt"
  /\ call.op = "place" => side_is_valid(call.args.side)
  /\ token_writer = None
  /\ token_readers' = token_readers \cup {"call"}
  /\ call' = [call EXCEPT !.pc = "token", !.log = call.log \o <<Event("attempt", 0)>>]
  /\ UNCHANGED <<history, session_token, contract_cache, token_writer, cache_readers, cache_writer,
                 spawned, api>>

\* The token defaulted instead of raised (unwrap_or_default).
token_read_defaulted(c, token) ==
  IF c.op = "place" THEN [c EXCEPT !.pc = "cache_lock", !.token = Some(unwrap_or(token, ""))]
  ELSE [c EXCEPT !.pc = "net",
                 !.sent = Some(Request(c.op, unwrap_or(token, ""), order_request_body(c))),
                 !.log = c.log \o <<Event("net", 0)>>]

\* Lines 347-350, 502-505, 566-569: the token cloned and the missing token
\* raised; modify and cancel then send (lines 508-527, 572-584).
token_read(c, token) ==
  IF token = None THEN attempt_ends(c, AuthError)
  ELSE IF c.op = "place" THEN [c EXCEPT !.pc = "cache_lock", !.token = token]
  ELSE [c EXCEPT !.pc = "net",
                 !.sent = Some(Request(c.op, token[1], order_request_body(c))),
                 !.log = c.log \o <<Event("net", 0)>>]

\* The token taken out of the session (Option::take) instead of cloned.
attempt_token_read_taking ==
  /\ call.pc = "token"
  /\ token_readers' = token_readers \ {"call"}
  /\ call' = token_read(call, session_token)
  /\ session_token' = None
  /\ UNCHANGED <<history, contract_cache, token_writer, cache_readers, cache_writer, spawned, api>>

attempt_token_read ==
  /\ call.pc = "token"
  /\ token_readers' = token_readers \ {"call"}
  /\ call' = token_read(call, session_token)
  /\ UNCHANGED <<history, session_token, contract_cache, token_writer, cache_readers, cache_writer,
                 spawned, api>>

\* Line 353, contract_cache.read().await: read access granted.
attempt_cache_read_lock ==
  /\ call.pc = "cache_lock"
  /\ cache_writer = None
  /\ cache_readers' = cache_readers \cup {"call"}
  /\ call' = [call EXCEPT !.pc = "cache"]
  /\ UNCHANGED <<history, session_token, contract_cache, token_readers, token_writer, cache_writer,
                 spawned, api>>

\* The contract id defaulted instead of raised (unwrap_or(0)).
cache_read_defaulted(c, cache) ==
  [c EXCEPT !.pc = "net",
            !.sent = Some(Request("place", c.token[1],
                       build_order_data(c.args, unwrap_or(cache_get(cache, c.args.symbol), 0)))),
            !.log = c.log \o <<Event("net", 0)>>]

\* Lines 353-420: the lookup, the missing contract id raised, else the
\* payload built and the request sent.
cache_read(c, cache) ==
  IF cache_get(cache, c.args.symbol) = None
  THEN attempt_ends(c, ContractError(c.args.symbol))
  ELSE [c EXCEPT !.pc = "net",
                 !.sent = Some(Request("place", c.token[1],
                            build_order_data(c.args, cache_get(cache, c.args.symbol)[1]))),
                 !.log = c.log \o <<Event("net", 0)>>]

\* The cache guard bound to a name that lives on across the send.
attempt_cache_read_holding ==
  /\ call.pc = "cache"
  /\ call' = cache_read(call, contract_cache)
  /\ UNCHANGED <<history, session_token, contract_cache, token_readers, token_writer, cache_readers,
                 cache_writer, spawned, api>>

attempt_cache_read ==
  /\ call.pc = "cache"
  /\ cache_readers' = cache_readers \ {"call"}
  /\ call' = cache_read(call, contract_cache)
  /\ UNCHANGED <<history, session_token, contract_cache, token_readers, token_writer, cache_writer,
                 spawned, api>>

\* Lines 420-492: the exchange of a place attempt ends: transport error, or a
\* response that is parsed and interpreted; retry_on_500 decides.
place_response(responses) ==
  /\ call.pc = "net" /\ call.op = "place"
  /\ \E r \in responses :
       call' = attempt_ends([call EXCEPT !.received = Some(r)], place_outcome(r))
  /\ UNCHANGED <<history, session, api>>

\* Lines 527-558
modify_response(responses) ==
  /\ call.pc = "net" /\ call.op = "modify"
  /\ \E r \in responses :
       call' = attempt_ends([call EXCEPT !.received = Some(r)],
                            modify_outcome(r, call.args.order_id))
  /\ UNCHANGED <<history, session, api>>

\* Lines 584-615
cancel_response(responses) ==
  /\ call.pc = "net" /\ call.op = "cancel"
  /\ \E r \in responses :
       call' = attempt_ends([call EXCEPT !.received = Some(r)],
                            cancel_outcome(r, call.args.order_id))
  /\ UNCHANGED <<history, session, api>>

\* The request of the last attempt sent again when the sleep elapses, nothing
\* read anew.
backoff_elapsed_resend ==
  /\ call.pc = "sleep"
  /\ call' = [call EXCEPT !.pc = "net", !.received = None, !.last = None,
                          !.log = call.log \o <<Event("attempt", 0), Event("net", 0)>>]
  /\ UNCHANGED <<history, session, api>>

\* The sleep armed again when it elapses, the loop never going round.
backoff_rearmed ==
  /\ call.pc = "sleep"
  /\ UNCHANGED vars

\* Lines 286-288: the backoff sleep elapses, the response of the attempt is
\* dropped and the loop goes round.
backoff_elapsed ==
  /\ call.pc = "sleep"
  /\ call' = [call EXCEPT !.pc = "attempt", !.received = None, !.last = None,
                          !.start = stored_at_start(session_token, contract_cache, call.args)]
  /\ UNCHANGED <<history, session, api>>

\* Lines 209-215, 229-233, 241-245: the future resolves, the result is handed
\* to the caller.
call_returns ==
  /\ call.pc = "done"
  /\ call' = IdleCall
  /\ UNCHANGED <<history, session, api>>

\* ------------------------------------------------------------ environment
PlaceArgs(symbol, side, quantity, stop_loss_ticks, take_profit_ticks, limit_price, order_type, custom_tag) ==
  [symbol |-> symbol, side |-> side, quantity |-> quantity, account_id |-> 7,
   stop_loss_ticks |-> stop_loss_ticks, take_profit_ticks |-> take_profit_ticks,
   limit_price |-> limit_price, order_type |-> order_type, custom_tag |-> custom_tag]

\* Plain market orders over every symbol and side, one symbol and side over
\* the brackets, and one limit order.
PlaceInputs ==
  {PlaceArgs(s, d, 1, None, None, None, Str_market, None) :
     s \in {Str_mnq, Str_MNQ, Str_ES}, d \in {Str_buy, Str_Sell, Str_HOLD}}
  \cup
  {PlaceArgs(Str_mnq, Str_Sell, 2, sl, tp, None, Str_market, None) :
     sl \in {None, Some(10)}, tp \in {None, Some(20)}}
  \cup
  {PlaceArgs(Str_MNQ, S_BUY, 1, None, None, Some(5), Str_LIMIT, Some(Str_tag))}

ModifyInputs ==
  {[order_id |-> Str_ord7, price |-> p, quantity |-> q] : p \in {None, Some(5)}, q \in {None, Some(2)}}

CancelInputs == {[order_id |-> Str_ord7]}

SendError(err) == Response("send_error", 0, <<>>, None, err)

BodyError(status, err) == Response("body_error", status, <<>>, None, err)

Http(status, text, parsed) == Response("http", status, text, parsed, Str_eof)

\* Bodies of the place endpoint.
PlaceBodies ==
  {JObj([error |-> JStr(Str_upstream500)]),
   JObj([error |-> JStr(Str_margin), success |-> JBool(TRUE), orderId |-> JStr(Str_A1)]),
   JObj([success |-> JBool(FALSE), errorMessage |-> JStr(Str_gateway), errorCode |-> JStr(Str_E42)]),
   JObj([success |-> JBool(FALSE), message |-> JStr(Str_lower500)]),
   JObj([success |-> JBool(TRUE), orderId |-> JStr(Str_A1)]),
   JObj([success |-> JBool(TRUE)]),
   JArr}

PlaceResponses ==
  {SendError(Str_timeout), SendError(HTTP_500), BodyError(500, Str_eof)}
  \cup {Http(500, Str_html, None)}
  \cup {Http(st, <<>>, Some(b)) : st \in {200, 500}, b \in PlaceBodies}

StatusResponses ==
  {SendError(Str_timeout), BodyError(200, Str_eof)}
  \cup {Http(st, Str_html, None) : st \in {200, 204, 299, 300, 404, 500}}
  \cup {Http(st, Str_jsonErrBody, Some(JObj([error |-> JStr(Str_denied)]))) : st \in {200, 500}}

\* The steps of an order future, over the responses the transport may give.
OrderSteps(place_responses, status_responses) ==
  \/ attempt_side_rejected
  \/ attempt_token_read_lock
  \/ attempt_token_read
  \/ attempt_cache_read_lock
  \/ attempt_cache_read
  \/ place_response(place_responses)
  \/ modify_response(status_responses)
  \/ cancel_response(status_responses)
  \/ backoff_elapsed
  \/ call_returns

\* Order calls of every kind against a session that is being set up.
Next ==
  \/ set_token({"tokA"})
  \/ set_token_task_write_lock
  \/ set_token_task_store
  \/ set_contract_id_write_lock({Str_mnq}, {101})
  \/ set_contract_id_insert
  \/ accessor_returns
  \/ place_market_order(PlaceInputs)
  \/ modify_order(ModifyInputs)
  \/ cancel_order(CancelInputs)
  \/ OrderSteps(PlaceResponses, StatusResponses)

Spec == Init /\ [][Next]_vars

\* ------------------------------------------- the interpreter's inputs
Str_true == <<"t", "r", "u", "e">>

\* Every payload with these members of error, success, orderId, id, data,
\* errorMessage, message and errorCode (None: the member is absent).
InterpBodies ==
  {MkObj([error |-> e, success |-> s, orderId |-> o, id |-> i, data |-> d,
          errorMessage |-> em, message |-> msg, errorCode |-> ec]) :
     e \in {None, Some(JNull), Some(JStr(Str_upstream500)), Some(JStr(Str_margin)), Some(JNum(500))},
     s \in {None, Some(JBool(TRUE)), Some(JBool(FALSE)), Some(JStr(Str_true))},
     o \in {None, Some(JNull), Some(JStr(<<>>)), Some(JStr(Str_A1)), Some(JNum(42))},
     i \in {None, Some(JNull), Some(JStr(Str_B2))},
     d \in {None, Some(JNull), Some(JObj([status |-> JNum(1)])), Some(JObj([orderId |-> JStr(Str_D3)]))},
     em \in {None, Some(JStr(Str_gateway))},
     msg \in {None, Some(JStr(Str_lower500))},
     ec \in {None, Some(JStr(Str_E42))}}

InterpResponses ==
  {Http(500, Str_html, None)} \cup {Http(200, <<>>, Some(b)) : b \in InterpBodies \cup {JArr}}

\* A session that is set up: a token stored and MNQ cached.
InitReady ==
  /\ session_token = Some("tokA")
  /\ contract_cache = cache_insert(<<>>, Str_mnq, 101)
  /\ token_readers = {}
  /\ token_writer = None
  /\ cache_readers = {}
  /\ cache_writer = None
  /\ spawned = <<>>
  /\ api = IdleApi
  /\ call = IdleCall
  /\ history = [last |-> Some("tokA"), passed |-> {"tokA"},
                sets |-> recorded_set(<<>>, Str_mnq, 101)]

\* Order calls against the session that is set up, over every payload.
NextInterp ==
  \/ place_market_order({PlaceArgs(Str_mnq, d, 1, None, None, None, Str_market, None) :
                           d \in {Str_Sell, Str_HOLD}})
  \/ modify_order({[order_id |-> Str_ord7, price |-> None, quantity |-> Some(2)]})
  \/ cancel_order(CancelInputs)
  \/ OrderSteps(InterpResponses, {Http(200, Str_html, None), Http(404, Str_html, None)})

SpecInterp == InitReady /\ [][NextInterp]_vars

\* The session store under every accessor, two tokens and two symbols, with
\* one order call of each kind running beside them.
SessionTokens == {"tokA", "tokB"}

SessionPlaceInputs ==
  {PlaceArgs(Str_mnq, d, 1, None, None, None, Str_market, None) : d \in {Str_Sell, Str_HOLD}}

SessionPlaceResponses ==
  {Http(200, <<>>, Some(JObj([success |-> JBool(TRUE), orderId |-> JStr(Str_A1)]))),
   Http(500, <<>>, Some(JObj([error |-> JStr(Str_upstream500)])))}

NextSession ==
  \/ set_token(SessionTokens)
  \/ set_token_outside_runtime(SessionTokens)
  \/ set_token_task_write_lock
  \/ set_token_task_store
  \/ get_token_read_lock
  \/ get_token_read
  \/ set_contract_id_write_lock({Str_mnq, Str_ES}, {101})
  \/ set_contract_id_insert
  \/ get_contract_id_read_lock({Str_MNQ, Str_ES})
  \/ get_contract_id_read
  \/ accessor_returns
  \/ place_market_order(SessionPlaceInputs)
  \/ modify_order({[order_id |-> Str_ord7, price |-> None, quantity |-> Some(2)]})
  \/ cancel_order(CancelInputs)
  \/ OrderSteps(SessionPlaceResponses, {Http(404, Str_html, None)})

SpecSession == Init /\ [][NextSession]_vars

\* One bracketed place call that is retried, while tokens are set and the
\* contract id of its symbol is overwritten.
RetryPlaceInputs == {PlaceArgs(Str_mnq, Str_Sell, 2, Some(10), Some(20), None, Str_market, Some(Str_tag))}

NextRetry ==
  \/ set_token(SessionTokens)
  \/ set_token_task_write_lock
  \/ set_token_task_store
  \/ set_contract_id_write_lock({Str_mnq}, {101, 202})
  \/ set_contract_id_insert
  \/ accessor_returns
  \/ place_market_order(RetryPlaceInputs)
  \/ attempt_token_read_lock
  \/ attempt_token_read
  \/ attempt_cache_read_lock
  \/ attempt_cache_read
  \/ place_response(SessionPlaceResponses)
  \/ backoff_elapsed
  \/ call_returns

SpecRetry == Init /\ [][NextRetry]_vars

\* A caller that makes two set_token calls and no other, the first with tokA
\* and, after it has returned, the second with tokB, beside get_token and
\* cancel calls.
NextTwoTokens ==
  \/ history.last = None /\ set_token({"tokA"})
  \/ history.last = Some("tokA") /\ set_token({"tokB"})
  \/ set_token_task_write_lock
  \/ set_token_task_store
  \/ get_token_read_lock
  \/ get_token_read
  \/ accessor_returns
  \/ cancel_order(CancelInputs)
  \/ attempt_token_read_lock
  \/ attempt_token_read
  \/ cancel_response({Http(200, Str_html, None)})
  \/ call_returns

SpecTwoTokens == Init /\ [][NextTwoTokens]_vars

\* The scheduling of an order call. The runtime polls a future that can go
\* on; a request gets its response or transport error and a sleep elapses;
\* a holder of write access does its one store and drops the guard; and
\* tokio's RwLock is fair, so a read that waits is granted even if writers
\* keep coming.
Fairness ==
  /\ WF_vars(attempt_side_rejected)
  /\ SF_vars(attempt_token_read_lock)
  /\ WF_vars(attempt_token_read)
  /\ SF_vars(attempt_cache_read_lock)
  /\ WF_vars(attempt_cache_read)
  /\ WF_vars(place_response(PlaceResponses))
  /\ WF_vars(modify_response(StatusResponses))
  /\ WF_vars(cancel_response(StatusResponses))
  /\ WF_vars(backoff_elapsed)
  /\ WF_vars(set_token_task_store)
  /\ WF_vars(set_contract_id_insert)

SpecLive == Init /\ [][Next]_vars /\ Fairness

\* The contract cache alone, under symbols that differ by case only and
\* identifiers that are overwritten.
CacheSymbols == {Str_mnq, Str_MNQ, Str_ES}

NextCache ==
  \/ set_contract_id_write_lock(CacheSymbols, {101, 202})
  \/ set_contract_id_insert
  \/ get_contract_id_read_lock(CacheSymbols)
  \/ get_contract_id_read
  \/ accessor_returns

SpecCache == Init /\ [][NextCache]_vars

\* ------------------------------------------------------------ properties
Str_AuthToken == <<"A", "u", "t", "h", "e", "n", "t", "i", "c", "a", "t", "i", "o", "n", " ", "t", "o", "k", "e", "n">>

RECURSIVE Count(_, _)
Count(log, ev) ==
  IF log = <<>> THEN 0
  ELSE (IF Head(log).ev = ev THEN 1 ELSE 0) + Count(Tail(log), ev)

HasPrefix(s, p) == Len(s) >= Len(p) /\ SubSeq(s, 1, Len(p)) = p

IsWait(e) == e.ev = "wait"

Waits(log) == SelectSeq(log, IsWait)

IsBuyOrSell(side) == to_uppercase(side) \in {S_BUY, S_SELL}

\* A soft failure whose error text contains HTTP 500.
SoftFailure500(outcome) ==
  /\ outcome.ok
  /\ ~outcome.resp.success
  /\ outcome.resp.error # None
  /\ contains(outcome.resp.error[1], HTTP_500)

\* C1: when an order call (place with a valid side, modify or cancel) reads
\* the credential and none is stored, the call ends there in a raised error
\* that names the authentication token, and its log holds no network call
\* and no backoff wait.
C1_AuthGating ==
  [][(/\ call.pc = "token"
      /\ call.op = "place" => IsBuyOrSell(call.args.side)
      /\ session_token = None
      /\ call'.pc # "token")
     => /\ call'.pc = "done"
        /\ call'.result # None
        /\ ~call'.result[1].ok
        /\ call'.result[1].type = "PyValueError"
        /\ contains(call'.result[1].msg, Str_AuthToken)
        /\ Count(call'.log, "net") = 0
        /\ Count(call'.log, "wait") = 0]_vars

C1_Witness ==
  /\ call.pc = "done" /\ call.op = "place"
  /\ IsBuyOrSell(call.args.side)
  /\ session_token = None
  /\ ~call.result[1].ok
  /\ contains(call.result[1].msg, Str_AuthToken)

\* C2: when a place call with a credential stored and a valid side looks up
\* its symbol and the upper-cased symbol has no entry in the contract cache,
\* the call ends there in a raised error that names the symbol, with no
\* network call and no backoff wait in its log.
C2_ContractGating ==
  [][(/\ call.pc = "cache" /\ call.op = "place"
      /\ IsBuyOrSell(call.args.side)
      /\ session_token # None
      /\ to_uppercase(call.args.symbol) \notin DOMAIN contract_cache
      /\ call'.pc # "cache")
     => /\ call'.pc = "done"
        /\ call'.result # None
        /\ ~call'.result[1].ok
        /\ call'.result[1].type = "PyValueError"
        /\ contains(call'.result[1].msg, call.args.symbol)
        /\ Count(call'.log, "net") = 0
        /\ Count(call'.log, "wait") = 0]_vars

C2_Witness ==
  /\ call.pc = "done" /\ call.op = "place"
  /\ session_token # None
  /\ DOMAIN contract_cache = {Str_MNQ}
  /\ call.args.symbol = Str_ES
  /\ ~call.result[1].ok
  /\ contains(call.result[1].msg, Str_ES)
  /\ Count(call.log, "net") = 0

\* C3: a place call whose side is not BUY or SELL in any case returns, as its
\* first step and whatever the session state, the soft failure "Side must be
\* 'BUY' or 'SELL'", with no network call and no backoff wait.
C3_SideValidationFirst ==
  [][(/\ call.pc = "attempt" /\ call.op = "place"
      /\ ~IsBuyOrSell(call.args.side)
      /\ call' # call)
     => /\ call'.pc = "done"
        /\ call'.result =
             Some([ok |-> TRUE,
                   resp |-> [success |-> FALSE, order_id |-> None, message |-> None,
                             error |-> Some(SideErrorMsg), raw_response |-> None]])
        /\ Count(call'.log, "net") = 0
        /\ Count(call'.log, "wait") = 0]_vars

C3_Witness ==
  /\ call.pc = "done" /\ call.op = "place"
  /\ call.args.side = Str_HOLD
  /\ session_token = None
  /\ contract_cache = <<>>
  /\ call.result[1].ok
  /\ call.result[1].resp.error = Some(SideErrorMsg)

\* C4: a place call makes at most 4 attempts, 4 network calls and 3 backoff
\* waits, and when 4 attempts returned a soft failure containing HTTP 500 the
\* call has ended and its result is that of the fourth attempt, a soft failure.
C4_RetryBound ==
  call.op = "place" =>
    /\ call.retries <= 3
    /\ Count(call.log, "attempt") <= 4
    /\ Count(call.log, "net") <= 4
    /\ Count(call.log, "wait") <= 3
    /\ Count(call.log, "ret500") = 4 =>
         /\ call.pc = "done"
         /\ call.result = call.last
         /\ SoftFailure500(call.result[1])

C4_Witness ==
  /\ call.op = "place" /\ call.pc = "done"
  /\ Count(call.log, "ret500") = 4
  /\ Count(call.log, "net") = 4

ExpectedBackoff == <<750, 1500, 3000>>

\* C5: in the log of a place call the i-th backoff wait is 750, 1500, 3000 ms,
\* each wait directly follows an attempt that returned a soft failure
\* containing HTTP 500 and directly precedes the next attempt, and a call that
\* ended after k such attempts followed by another outcome made exactly k
\* waits and returns that last outcome.
C5_RetryTiming ==
  call.op = "place" =>
    LET log == call.log
        w == Waits(log)
    IN  /\ Len(w) <= 3
        /\ \A i \in 1..Len(w) : w[i].ms = ExpectedBackoff[i]
        /\ \A j \in 1..Len(log) :
             /\ log[j].ev = "wait" =>
                  /\ j > 1 /\ log[j - 1].ev = "ret500"
                  /\ j < Len(log) => log[j + 1].ev = "attempt"
             /\ (log[j].ev = "attempt" /\ j > 1) => log[j - 1].ev = "wait"
        /\ (call.pc = "done" /\ log[Len(log)].ev = "ret") =>
             /\ Len(w) = Count(log, "ret500")
             /\ Count(log, "attempt") = Len(w) + 1
             /\ call.result = call.last
             /\ ~SoftFailure500(call.result[1])

C5_Witness ==
  /\ call.op = "place" /\ call.pc = "done"
  /\ Waits(call.log) = <<Event("wait", 750), Event("wait", 1500)>>
  /\ Count(call.log, "net") = 3
  /\ call.result[1].ok
  /\ call.result[1].resp.success

\* C6: a place call goes to a backoff wait only from an attempt that returned
\* a soft failure containing HTTP 500, starts a further attempt only after a
\* backoff wait, and an attempt with any other outcome (success, other soft
\* failure, raised error) ends the call in that step with that outcome.
C6_RetryTrigger ==
  [][call.op = "place" =>
       /\ (call'.pc = "sleep" /\ call.pc # "sleep") =>
            /\ call.pc = "net"
            /\ SoftFailure500(call'.last[1])
       /\ (call'.pc = "attempt" /\ call.pc \notin {"attempt", "idle"}) => call.pc = "sleep"
       /\ (/\ call.pc \in {"attempt", "token", "cache", "net"}
           /\ call'.pc \in {"sleep", "done"}
           /\ ~SoftFailure500(call'.last[1]))
          => /\ call'.pc = "done"
             /\ call'.result = call'.last
             /\ Count(call'.log, "net") = Count(call.log, "net")
             /\ Count(call'.log, "wait") = Count(call.log, "wait")]_vars

C6_Witness ==
  /\ call.op = "place" /\ call.pc = "done"
  /\ Count(call.log, "net") = 3
  /\ Count(call.log, "wait") = 2
  /\ ~call.result[1].ok

\* C10: a modify or cancel call that received a status and a body returns
\* success exactly when the status is 2xx, whatever the body; on another
\* status the error is "HTTP {status}: {body}" and there is no raw_response;
\* the order_id is the caller's in both cases.
C10_StatusOnly ==
  (/\ call.op \in {"modify", "cancel"} /\ call.pc = "done"
   /\ call.received # None /\ call.received[1].kind = "http")
  => LET r == call.received[1]
         res == call.result[1]
     IN  /\ res.ok
         /\ res.resp.success <=> r.status \in 200..299
         /\ res.resp.order_id = Some(call.args.order_id)
         /\ ~res.resp.success =>
              /\ res.resp.error =
                   Some(HttpPrefix \o status_display(r.status) \o ColonSpace \o r.text)
              /\ res.resp.raw_response = None

C10_WitnessErrorBody ==
  /\ call.op = "modify" /\ call.pc = "done"
  /\ call.received # None
  /\ call.received[1].kind = "http"
  /\ call.received[1].status = 200
  /\ call.received[1].parsed = Some(JObj([error |-> JStr(Str_denied)]))
  /\ call.result[1].resp.success

\* The place call has ended on a payload that was parsed.
PlaceDoneOnPayload ==
  /\ call.op = "place" /\ call.pc = "done"
  /\ call.received # None
  /\ call.received[1].kind = "http"
  /\ call.received[1].parsed # None
  /\ call.result # None
  /\ call.result[1].ok

ErrorAbsentOrNull(j) == get(j, "error") = None \/ get(j, "error")[1].t = "null"

SuccessIsTrue(j) == get(j, "success") = Some(JBool(TRUE))

\* A member that holds an order identifier: a string.
HoldsId(o) == o # None /\ o[1].t = "str"

IdFields(j) ==
  <<get(j, "orderId"), get(j, "id"),
    IF get(j, "data") = None THEN None ELSE get(get(j, "data")[1], "orderId")>>

\* C7: a place result with success=true carries an order identifier that is
\* present and non-empty, and a payload marked success=true none of whose
\* identifier members holds an identifier gives the failure "Order rejected:
\* No order ID returned".
C7_SuccessImpliesId ==
  (call.op = "place" /\ call.pc = "done" /\ call.result[1].ok) =>
    /\ call.result[1].resp.success =>
         /\ call.result[1].resp.order_id # None
         /\ call.result[1].resp.order_id[1] # <<>>
    /\ (/\ PlaceDoneOnPayload
        /\ ErrorAbsentOrNull(call.received[1].parsed[1])
        /\ SuccessIsTrue(call.received[1].parsed[1])
        /\ \A k \in 1..3 : ~HoldsId(IdFields(call.received[1].parsed[1])[k]))
       => /\ ~call.result[1].resp.success
          /\ call.result[1].resp.error = Some(NoOrderIdMsg)

\* C8: for a payload with no non-null error and success=true, the result is a
\* success exactly when one of orderId, id, data.orderId holds an identifier,
\* and the identifier returned is that of the first of them that holds one.
C8_IdExtractionOrder ==
  (/\ PlaceDoneOnPayload
   /\ ErrorAbsentOrNull(call.received[1].parsed[1])
   /\ SuccessIsTrue(call.received[1].parsed[1]))
  => LET ids == IdFields(call.received[1].parsed[1])
         holders == {k \in 1..3 : HoldsId(ids[k])}
         first == CHOOSE k \in holders : \A h \in holders : k <= h
     IN  /\ call.result[1].resp.success <=> holders # {}
         /\ holders # {} => call.result[1].resp.order_id = Some(ids[first][1].v)

\* C9 as stated: a payload whose error member is present and non-null gives a
\* failure that carries that error member as its error and the payload as
\* raw_response.
C9_ErrorFieldCarried ==
  (/\ PlaceDoneOnPayload
   /\ ~ErrorAbsentOrNull(call.received[1].parsed[1]))
  => LET j == call.received[1].parsed[1]
         res == call.result[1].resp
     IN  /\ ~res.success
         /\ get(j, "error")[1].t = "str"
         /\ res.error = Some(get(j, "error")[1].v)
         /\ res.raw_response = Some(j)

\* C9 amended: a payload whose error member is present and non-null gives a
\* failure with the payload as raw_response, whose error is the member's text
\* when the member is a string and "Unknown error" when it is not, whatever
\* the success flag and identifier members are; with error absent or null the
\* result follows the success flag, and an absent flag gives an "Order
\* failed" failure.
C9_ErrorPrecedence ==
  PlaceDoneOnPayload =>
    LET j == call.received[1].parsed[1]
        res == call.result[1].resp
    IN  /\ ~ErrorAbsentOrNull(j) =>
             /\ ~res.success
             /\ res.order_id = None
             /\ res.raw_response = Some(j)
             /\ res.error = IF get(j, "error")[1].t = "str"
                            THEN Some(get(j, "error")[1].v)
                            ELSE Some(UnknownErrorMsg)
        /\ ErrorAbsentOrNull(j) =>
             /\ res.success => SuccessIsTrue(j)
             /\ ~SuccessIsTrue(j) =>
                  /\ ~res.success
                  /\ HasPrefix(res.error[1], OrderFailedPrefix)

C9_Witness ==
  /\ PlaceDoneOnPayload
  /\ get(call.received[1].parsed[1], "error") = Some(JStr(Str_margin))
  /\ SuccessIsTrue(call.received[1].parsed[1])
  /\ get(call.received[1].parsed[1], "orderId") = Some(JStr(Str_A1))
  /\ ~call.result[1].resp.success
  /\ call.result[1].resp.error = Some(Str_margin)

\* ------------------------------------------------------- the session store
\* C11: token read-your-write. get_token on a fresh executor returns absent,
\* and once set_token(t) has returned the next get_token returns t: whatever
\* get_token returns is the token of the latest set_token call that returned.
C11_TokenReadYourWrite ==
  (api.op = "get_token" /\ api.pc = "ret") => api.ret = history.last

IsUppercase(s) == \A i \in 1..Len(s) : \A j \in 1..Len(LowerAlphabet) : s[i] # LowerAlphabet[j]

SameUppercase(s1, s2) == to_uppercase(s1) = to_uppercase(s2)

\* The identifier of the most recent completed set_contract_id(s', id) with
\* uppercase(s') = uppercase(s), or absent when there is none.
MostRecentSet(sets, s) ==
  LET same(e) == SameUppercase(e.symbol, s)
      calls == SelectSeq(sets, same)
  IN  IF calls = <<>> THEN None ELSE Some(calls[Len(calls)].contract_id)

\* C12: cache normalization. Every key of the contract cache is an
\* uppercase string, and get_contract_id(s) returns the identifier of the
\* most recent completed set_contract_id(s', id) whose symbol has the same
\* uppercase form as s, or absent when no such call completed.
C12_CacheNormalization ==
  /\ \A k \in DOMAIN contract_cache : IsUppercase(k)
  /\ (api.op = "get_contract_id" /\ api.pc = "ret") =>
       api.ret = MostRecentSet(history.sets, api.arg.symbol)

\* set("mnq", ..), then set("MNQ", 202) completed, ES never set: a lookup of
\* "mnq" returns 202.
C12_Witness ==
  /\ api.op = "get_contract_id" /\ api.pc = "ret"
  /\ api.arg.symbol = Str_mnq
  /\ api.ret = Some(202)
  /\ Len(history.sets) = 2
  /\ history.sets[1].symbol = Str_mnq
  /\ history.sets[2] = [symbol |-> Str_MNQ, contract_id |-> 202]

\* ------------------------------------------------------ the order payload
PlaceSent == call.op = "place" /\ call.sent # None

Bracket(ticks, type, size) ==
  [t |-> "obj",
   v |-> [ticks |-> [t |-> "num", v |-> ticks], type |-> [t |-> "num", v |-> type],
          size |-> [t |-> "num", v |-> size], reduceOnly |-> [t |-> "bool", v |-> TRUE]]]

\* C13: bracket construction. In the payload of a place attempt that reaches
\* the network, stopLossBracket is present exactly when stop_loss_ticks was
\* supplied and takeProfitBracket exactly when take_profit_ticks was
\* supplied, each independently of the other; the stop-loss bracket is
\* {ticks, type 4, size = quantity, reduceOnly true} and the take-profit
\* bracket is {ticks, type 1, size = quantity, reduceOnly true}.
C13_BracketConstruction ==
  PlaceSent =>
    LET a == call.args
        members == call.sent[1].body.v
    IN  /\ call.sent[1].body.t = "obj"
        /\ ("stopLossBracket" \in DOMAIN members) <=> (a.stop_loss_ticks # None)
        /\ ("takeProfitBracket" \in DOMAIN members) <=> (a.take_profit_ticks # None)
        /\ a.stop_loss_ticks # None =>
             members["stopLossBracket"] = Bracket(a.stop_loss_ticks[1], 4, a.quantity)
        /\ a.take_profit_ticks # None =>
             members["takeProfitBracket"] = Bracket(a.take_profit_ticks[1], 1, a.quantity)

\* A payload on the network with a take-profit bracket and no stop-loss one.
C13_Witness ==
  /\ PlaceSent
  /\ call.pc = "net"
  /\ call.args.stop_loss_ticks = None
  /\ call.args.take_profit_ticks = Some(20)
  /\ call.args.quantity = 2
  /\ "takeProfitBracket" \in DOMAIN call.sent[1].body.v
  /\ "stopLossBracket" \notin DOMAIN call.sent[1].body.v

\* --------------------------------------------------------- modify, cancel
\* C14: modify and cancel are never retried. Such a call makes at most one
\* network call and no backoff wait, also when the response has status 500
\* and the soft failure's error text contains "HTTP 500".
C14_ModifyCancelNotRetried ==
  call.op \in {"modify", "cancel"} =>
    /\ Count(call.log, "net") <= 1
    /\ Count(call.log, "attempt") <= 1
    /\ Count(call.log, "wait") = 0
    /\ call.retries = 0
    /\ call.pc # "sleep"
    /\ (call.last # None /\ SoftFailure500(call.last[1])) =>
         call.pc = "done" /\ call.result = call.last

\* A cancel that got status 500 has returned its HTTP 500 soft failure after
\* its one network call.
C14_Witness ==
  /\ call.op = "cancel" /\ call.pc = "done"
  /\ call.received # None /\ call.received[1].kind = "http" /\ call.received[1].status = 500
  /\ call.result[1].ok
  /\ ~call.result[1].resp.success
  /\ contains(call.result[1].resp.error[1], HTTP_500)
  /\ Count(call.log, "net") = 1

\* ------------------------------------------------------------- the locks
\* C15: reader/writer exclusion, for the credential and separately for the
\* contract cache: at every instant either nobody holds write access, or
\* exactly one operation holds it and nobody holds read access; several
\* readers may hold read access together.
C15_ReaderWriterExclusion ==
  /\ token_writer = None \/ (Len(token_writer) = 1 /\ token_readers = {})
  /\ cache_writer = None \/ (Len(cache_writer) = 1 /\ cache_readers = {})
  /\ token_readers \subseteq {"api", "call"}
  /\ cache_readers \subseteq {"api", "call"}

\* get_token and an order call read the credential together while a
\* set_token task waits for write access.
C15_Witness ==
  /\ token_readers = {"api", "call"}
  /\ token_writer = None
  /\ spawned # <<>>

\* ------------------------------------------------------------- the frame
\* The entries of the cache other than the one of symbol are the same in
\* both maps.
OtherEntriesKept(before, after, symbol) ==
  \A k \in (DOMAIN before \cup DOMAIN after) \ {to_uppercase(symbol)} :
    k \in DOMAIN before /\ k \in DOMAIN after /\ after[k] = before[k]

\* A step that keeps the frame.
FrameKept ==
  /\ session_token' # session_token =>
       /\ token_writer # None /\ token_writer[1] \in history.passed
       /\ session_token' = token_writer
       /\ call' = call /\ api' = api
  /\ contract_cache' # contract_cache =>
       /\ api.op = "set_contract_id" /\ api.pc = "locked"
       /\ OtherEntriesKept(contract_cache, contract_cache', api.arg.symbol)
       /\ call' = call
  /\ call' # call =>
       session_token' = session_token /\ contract_cache' = contract_cache
  /\ (api' # api /\ {api.op, api'.op} \cap {"get_token", "get_contract_id"} # {}) =>
       session_token' = session_token /\ contract_cache' = contract_cache

\* C16: frame. Every step of place, modify and cancel (whatever the outcome,
\* across retries) and of the getters leaves the credential and the contract
\* cache unchanged; the credential is changed by set_token's write only, and
\* the cache by set_contract_id only, which changes no entry but the one of
\* the uppercased symbol.
C16_Frame == [][FrameKept]_vars

\* A place call has ended after three retries, a modify or cancel could
\* follow; the session holds the second token and both symbols.
C16_Witness ==
  /\ call.op = "place" /\ call.pc = "done" /\ call.retries = 3
  /\ session_token = Some("tokB")
  /\ DOMAIN contract_cache = {Str_MNQ, Str_ES}
  /\ history.passed = {"tokA", "tokB"}

\* ----------------------------------------------------------- termination
Pending == call.pc \notin {"idle", "done"}

\* A call that has ended holds exactly one of: a success, a soft failure, a
\* raised error.
Terminal ==
  /\ call.pc = "done"
  /\ call.result # None
  /\ \/ call.result[1].ok /\ call.result[1].resp.success
     \/ call.result[1].ok /\ ~call.result[1].resp.success
     \/ ~call.result[1].ok /\ call.result[1].type \in {"PyValueError", "PyRuntimeError"}

\* Once ended, a call is only handed to its caller: no network call, no wait.
EndedStaysEnded == call.pc = "done" => (call' = call \/ call' = IdleCall)

\* C17: termination. Every place, modify and cancel call eventually reaches
\* exactly one terminal state (a success, a soft failure or a raised error),
\* given that each network attempt eventually yields a response or a
\* transport error and each backoff wait elapses; once terminal, the call
\* makes no further network call and no further wait.
C17_Termination ==
  /\ [](call.pc = "done" => Terminal)
  /\ [][EndedStaysEnded]_vars
  /\ Pending ~> Terminal

\* A place call has ended on its fourth HTTP 500 soft failure, after three
\* backoff waits.
C17_Witness ==
  /\ Terminal
  /\ call.op = "place" /\ call.retries = max_retries
  /\ SoftFailure500(call.result[1])
  /\ Count(call.log, "net") = 4 /\ Count(call.log, "wait") = 3

\* ------------------------------------------------------ result well-formed
Returned == call.pc = "done" /\ call.result # None /\ call.result[1].ok

\* C18: result well-formedness. Every OrderResponse returned by place,
\* modify or cancel has success = false exactly when its error field is
\* populated and success = true exactly when its message field is populated;
\* a place result produced from a parsed upstream response carries that
\* response as raw_response, and the side-validation soft failure carries
\* none.
C18_ResultWellFormed ==
  Returned =>
    LET res == call.result[1].resp
    IN  /\ ~res.success <=> res.error # None
        /\ res.success <=> res.message # None
        /\ (call.op = "place" /\ call.received # None /\ call.received[1].parsed # None) =>
             res.raw_response = call.received[1].parsed
        /\ (call.op = "place" /\ ~IsBuyOrSell(call.args.side)) =>
             /\ call.received = None
             /\ res.raw_response = None
             /\ res.error = Some(SideErrorMsg)

\* A place success built from the parsed payload {"success": true,
\* "orderId": "A1"}, carried as raw_response.
C18_Witness ==
  /\ Returned
  /\ call.op = "place"
  /\ call.result[1].resp.success
  /\ call.result[1].resp.message = Some(PlacedMsg)
  /\ call.result[1].resp.error = None
  /\ call.result[1].resp.raw_response =
       Some(JObj([success |-> JBool(TRUE), orderId |-> JStr(Str_A1)]))

\* ------------------------------------------------------ the session grows
SessionGrows ==
  /\ session_token' # session_token => token_writer # None
  /\ session_token # None => session_token' # None
  /\ session_token' # None => session_token'[1] \in history'.passed
  /\ \A k \in DOMAIN contract_cache : k \in DOMAIN contract_cache'
  /\ \A a \in SessionPlaceInputs :
       (session_token # None /\ cache_get(contract_cache, a.symbol) # None) =>
         (session_token' # None /\ cache_get(contract_cache', a.symbol) # None)

\* C19: the session only grows. The credential is absent until a set_token
\* write lands and is never absent afterwards, and its value is always a
\* token passed to some earlier set_token call; a symbol that has an entry
\* in the contract cache has one in every later state. So once auth gating
\* and contract gating pass for a symbol they pass in every later state.
C19_SessionOnlyGrows == [][SessionGrows]_vars

\* A place call is on the network (both gates passed) in a session that
\* holds a token and both symbols.
C19_Witness ==
  /\ session_token # None
  /\ DOMAIN contract_cache = {Str_MNQ, Str_ES}
  /\ call.op = "place" /\ call.pc = "net"
  /\ spawned # <<>>

\* ------------------------------------------------------- the later token
\* C20: if set_token(a) returns before set_token(b) is called and no other
\* set_token call is made, then once both background writes have landed the
\* stored credential is b.
C20_LaterTokenWins ==
  (history.last = Some("tokB") /\ spawned = <<>> /\ token_writer = None) =>
    session_token = Some("tokB")

\* ------------------------------------------------------- suspension points
\* The order call waits on network I/O or on a retry backoff.
Suspended == call.pc \in {"net", "sleep"}

\* C21: no session lock is held across a suspension point of an order call.
\* While a place, modify or cancel call waits on network I/O or on a retry
\* backoff it holds neither read nor write access to the credential or the
\* contract cache, so a set_token or set_contract_id write issued meanwhile
\* is not kept waiting by the order call.
C21_NoLockAcrossSuspension ==
  Suspended =>
    /\ "call" \notin token_readers
    /\ "call" \notin cache_readers
    /\ token_writer # Some("call")
    /\ cache_writer # Some("call")
    /\ (token_readers = {} /\ spawned # <<>> /\ token_writer = None) =>
         ENABLED set_token_task_write_lock
    /\ (cache_readers = {} /\ cache_writer = None /\ api.op = "idle") =>
         ENABLED set_contract_id_write_lock({Str_ES}, {101})

\* A place call sleeps in its backoff while set_token's task holds write
\* access to the credential and set_contract_id holds it to the cache.
C21_Witness ==
  /\ call.op = "place" /\ call.pc = "sleep"
  /\ token_writer = Some("tokB")
  /\ cache_writer = Some("api")

\* ------------------------------------------------- what an attempt sends
\* A place attempt has handed its request to the transport.
PlaceOnNetwork == call.op = "place" /\ call.pc = "net" /\ call.sent # None /\ call.start # None

ContractIdSent(request) == get(request.body, "contractId")

\* The members of the payload other than contractId are the same in both.
SameOtherFields(body1, body2) ==
  /\ DOMAIN body1.v = DOMAIN body2.v
  /\ \A k \in DOMAIN body1.v \ {"contractId"} : body1.v[k] = body2.v[k]

\* C22 as stated: the bearer token and the contractId sent by an attempt of a
\* place call are the values stored at the moment that attempt starts.
C22_SentAsStoredAtStart ==
  PlaceOnNetwork =>
    /\ Some(call.sent[1].bearer) = call.start[1].token
    /\ call.start[1].contract_id # None
    /\ ContractIdSent(call.sent[1]) = Some([t |-> "num", v |-> call.start[1].contract_id[1]])

\* A step of a place attempt, retries included, reads what it sends: the
\* credential at its token read, the contract id at its cache read.
ReadsAnew ==
  /\ (call.op = "place" /\ call.pc = "token" /\ call'.pc = "cache_lock") =>
       /\ "call" \in token_readers
       /\ call'.token = session_token
  /\ (call.op = "place" /\ call'.pc = "net" /\ call.pc # "net") =>
       /\ call.pc = "cache" /\ "call" \in cache_readers
       /\ Some(call'.sent[1].bearer) = call.token
       /\ ContractIdSent(call'.sent[1]) =
            Some([t |-> "num", v |-> contract_cache[to_uppercase(call.args.symbol)]])
       /\ call.sent # None => SameOtherFields(call.sent[1].body, call'.sent[1].body)
  /\ (call.op = "place" /\ call.pc = "sleep" /\ call' # call) =>
       call'.pc = "attempt" /\ call'.token = None

\* C22, amended: every attempt of a place call, retries included, reads the
\* credential and the contract id anew, so the bearer token and contractId
\* sent by an attempt are the values stored at the moment that attempt
\* reads them (a write that lands during a backoff wait, or after the
\* attempt has started and before its read, is used by that attempt), and
\* the other payload fields are identical across all attempts of one call.
C22_SentAsReadByAttempt == [][ReadsAnew]_vars

\* The first retry started with tokA stored and sends tokB, which landed
\* before the attempt's token read.
C22_Witness ==
  /\ PlaceOnNetwork
  /\ call.retries = 1
  /\ call.start[1].token = Some("tokA")
  /\ call.sent[1].bearer = "tokB"
  /\ ContractIdSent(call.sent[1]) = Some([t |-> "num", v |-> 202])

\* --------------------------------------------------- status of a place
\* Status codes a place response is compared under.
ComparedStatuses == {200, 204, 404, 500}

\* This step ends a place attempt on a response whose body parsed as JSON.
PlaceAnswered ==
  /\ call.op = "place" /\ call.pc = "net"
  /\ call'.pc \in {"sleep", "done"}
  /\ call'.received # None
  /\ call'.received[1].kind = "http" /\ call'.received[1].parsed # None

\* What the same call would have become on the same body under status st.
UnderStatus(st) ==
  LET r == [call'.received[1] EXCEPT !.status = st]
  IN  attempt_ends([call EXCEPT !.received = Some(r)], place_outcome(r))

StatusIgnored ==
  PlaceAnswered =>
    /\ \A st \in ComparedStatuses :
         /\ UnderStatus(st).last = call'.last
         /\ UnderStatus(st).result = call'.result
         /\ UnderStatus(st).pc = call'.pc
         /\ UnderStatus(st).retries = call'.retries
         /\ UnderStatus(st).log = call'.log
    /\ call'.last = Some(Ok(interpret_place_response(call'.received[1].parsed[1])))
    /\ call'.pc = "sleep" =>
         /\ SoftFailure500(call'.last[1])
         /\ call.retries < max_retries

\* C23: place ignores the HTTP status. For a place attempt whose response
\* body parses as JSON, the interpreted result and the retry decision depend
\* on the body only: the same body under another status code gives the same
\* OrderResponse and the same retry decision, so a status-500 response is
\* retried only when the error text taken from its body contains "HTTP 500".
C23_PlaceIgnoresStatus == [][StatusIgnored]_vars

\* A status-500 response whose body carries another error text has ended the
\* call without a retry.
C23_Witness ==
  /\ call.op = "place" /\ call.pc = "done" /\ call.retries = 0
  /\ call.received # None
  /\ call.received[1].kind = "http" /\ call.received[1].status = 500
  /\ call.received[1].parsed # None
  /\ call.result[1].ok
  /\ call.result[1].resp.error = Some(Str_margin)
  /\ Count(call.log, "wait") = 0

====
